---- MODULE Spec2Model ----
(***************************************************************************)
(* Model of the labeling app in src/app.py: the CSV file on disk, the      *)
(* process-wide numpy generator, and for every browser session the         *)
(* Streamlit session_state, the widgets of the last script run and the     *)
(* position of the running script.  A script run is a sequence of steps,   *)
(* one per access to shared state (the file, the generator), so that the   *)
(* runs of two sessions interleave as their threads do.                    *)
(***************************************************************************)
EXTENDS Integers, Sequences, FiniteSets, TLC

\* ------------------------------------------------------------------ bounds
NumRows == 3
MaxFaults == 1
ConcRows == 2

Sessions == {1, 2}

\* --------------------------------------------------------------- constants
None == 0 - 1
KeyError == 0 - 2
shuffle_seed == 42

required_columns == {"ID", "Prompts", "Responses"}
AllColumns == required_columns \cup {"Label"}
Buttons == {"yes", "no", "skip", "reset"}

\* Low 16 bits of the first outputs of MT19937 seeded with 42 (the legacy
\* numpy generator after np.random.seed(42)).  random_interval masks every
\* output with a mask < 2^16 here, so the high bits never matter.
MT42 == << 56422, 15795, 860, 38158, 62570, 54343, 44732, 11284, 54886, 6265,
           16850, 62678, 37194, 21962, 47191, 60788, 44131, 60263, 16023,
           41090, 1685, 64820, 769, 59735, 62955, 64925, 56101, 2433, 5311,
           37819, 39188, 17568, 53707, 19769, 28693, 6396, 62187, 27480,
           65072, 41434, 25658, 18942, 57001, 18431, 64987, 2747, 58319,
           59150 >>

\* ------------------------------------------------------------- the dataset
\* The row at position i (pandas index i, 0-based) of the data set.  A
\* Responses cell is some text, or a text that pd.read_csv takes for a missing
\* value ("N/A", "NA", "null", "None", "nan", ...).
IdOf(i) == 10 * (i + 1)
MkRow(i, l) == [ID |-> IdOf(i), Prompts |-> IdOf(i) + 1,
                Responses |-> "text", Label |-> l]
NaCells == {"", "N/A"}

AbsentFile == [kind |-> "absent", cols |-> {}, rows |-> << >>]
EmptyFile == [kind |-> "malformed", cols |-> {}, rows |-> << >>]
TableFile(c, r) == [kind |-> "table", cols |-> c, rows |-> r]

NoDf == [ok |-> FALSE, cols |-> {}, rows |-> << >>]

\* The ID cell of a line that is the tail of an older, longer content of the
\* file: a piece of text, or nothing.
JunkText == 0 - 3
JunkNaN == 0 - 4
IsJunk(id) == id \in {JunkText, JunkNaN}
HasJunk(r) == \E i \in 1..Len(r) : IsJunk(r[i].ID)

\* pd.read_csv: an empty cell, and a cell with one of the default NA texts, is
\* read back as NaN.  One ID cell that is not a
\* number makes the ID column a column of strings: the string of the number n
\* is written 0 - n here, and is equal to no number.
ReadCsv(f) ==
    LET text == \E i \in 1..Len(f.rows) : f.rows[i].ID = JunkText
    IN  [ok |-> TRUE, cols |-> f.cols,
         rows |-> [i \in 1..Len(f.rows) |->
                     [f.rows[i] EXCEPT !.Label = IF @ = "" THEN "NaN" ELSE @,
                                       !.Responses = IF @ \in NaCells THEN "NaN" ELSE @,
                                       !.ID = IF text /\ @ > 0 THEN 0 - @ ELSE @]]]

\* df.to_csv(index=False): NaN and '' are both written as an empty cell, a
\* number and its string as the same digits.
ToCsv(d) ==
    TableFile(d.cols,
              [i \in 1..Len(d.rows) |->
                 [d.rows[i] EXCEPT !.Label = IF @ = "NaN" THEN "" ELSE @,
                                   !.Responses = IF @ = "NaN" THEN "" ELSE @,
                                   !.ID = IF @ < 0 /\ ~IsJunk(@) THEN 0 - @ ELSE @]])

\* The bytes that the Label cells take in a file.
RECURSIVE LabelBytes(_)
LabelBytes(r) == IF r = << >> THEN 0 ELSE Len(Head(r).Label) + LabelBytes(Tail(r))

\* The line that the last d bytes of a file make, when the file's last Label
\* cell is l: "es", ",Yes", "...text,Yes".  Its Label cell is missing.
TailRow(d, l) ==
    [ID |-> IF d - 1 = Len(l) + 1 THEN JunkNaN ELSE JunkText,
     Prompts |-> 0, Responses |-> "", Label |-> ""]

\* The file after the content mine is written from offset 0 by a writer whose
\* open came before the content cur was written: nothing is truncated now, so
\* what cur has beyond the length of mine stays.  One byte more is an empty
\* line, which read_csv skips; more is a line of its own.
Overwrite(mine, cur) ==
    IF cur.kind # "table" THEN mine
    ELSE LET d == LabelBytes(cur.rows) - LabelBytes(mine.rows)
         IN  IF d <= 1 THEN mine
             ELSE TableFile(mine.cols,
                            Append(mine.rows, TailRow(d, cur.rows[Len(cur.rows)].Label)))

\* The overwrites followed: onto an empty file, or of two contents with the
\* same rows and no tail line yet, so that only the Label cells differ in size.
Overwritable(mine, cur) ==
    \/ cur.kind # "table"
    \/ /\ cur.cols = mine.cols
       /\ Len(cur.rows) = Len(mine.rows)
       /\ ~HasJunk(cur.rows)
       /\ ~HasJunk(mine.rows)

\* What a to_csv that raises part-way leaves behind: the file was truncated
\* at open, then the header and some of the rows were flushed, or nothing.
PartialFiles(d) ==
    {EmptyFile} \cup
    {TableFile(d.cols, SubSeq(ToCsv(d).rows, 1, k)) : k \in 0..(Len(d.rows) - 1)}

\* Mutant: pd.isna(v) alone, the test v == '' is missing.
IsNaN(v) == v = "NaN"

\* Mutant: pd.isna(v) or v != 'Yes'
IsNotYes(v) == v = "NaN" \/ v # "Yes"

\* pd.isna(v) or v == ''
IsUnlabeled(v) == v = "NaN" \/ v = ""

\* df.index of a frame read from the file
Index(d) == 0..(Len(d.rows) - 1)

\* df['Label'] = ''
ClearLabels(d) ==
    [ok |-> TRUE, cols |-> d.cols \cup {"Label"},
     rows |-> [i \in 1..Len(d.rows) |-> [d.rows[i] EXCEPT !.Label = ""]]]

\* Mutant: the row mask is dropped, df['Label'] = label.
SetLabelAll(d, id, label) ==
    [ok |-> TRUE, cols |-> d.cols \cup {"Label"},
     rows |-> [i \in 1..Len(d.rows) |-> [d.rows[i] EXCEPT !.Label = label]]]

\* df.loc[df['ID'] == item_id, 'Label'] = label
SetLabelLoc(d, id, label) ==
    [ok |-> TRUE, cols |-> d.cols \cup {"Label"},
     rows |-> [i \in 1..Len(d.rows) |->
                 IF d.rows[i].ID = id
                 THEN [d.rows[i] EXCEPT !.Label = label]
                 ELSE d.rows[i]]]

\* len(df[df['Label'].notna() & (df['Label'] != '')])
labeled_items(d) ==
    Cardinality({i \in 1..Len(d.rows) : ~IsUnlabeled(d.rows[i].Label)})
total_items(d) == Len(d.rows)
remaining_items(d) == total_items(d) - labeled_items(d)


\* ------------------------------------------------- the seeded shuffle (54-59)
\* The smallest 2^k - 1 that is >= max (random_interval's mask).
RECURSIVE MaskOf(_, _)
MaskOf(m, max) == IF m >= max THEN m ELSE MaskOf(2 * m + 1, max)

\* numpy's random_interval(max): draw 32-bit outputs, masked, until one is
\* <= max.  pos is the number of outputs drawn from the stream so far.
RECURSIVE RandomInterval(_, _)
RandomInterval(pos, max) ==
    LET v == MT42[pos + 1] % (MaskOf(0, max) + 1)
    IN  IF v <= max THEN [val |-> v, pos |-> pos + 1]
                    ELSE RandomInterval(pos + 1, max)

Swap(x, i, j) == [x EXCEPT ![i + 1] = x[j + 1], ![j + 1] = x[i + 1]]

\* np.random.shuffle(indices): for i in reversed(range(1, n)):
\*     j = random_interval(i); x[i], x[j] = x[j], x[i]
RECURSIVE ShuffleLoop(_, _, _)
ShuffleLoop(x, i, pos) ==
    IF i < 1 THEN [indices |-> x, pos |-> pos]
    ELSE LET r == RandomInterval(pos, i)
         IN  ShuffleLoop(Swap(x, i, r.val), i - 1, r.pos)

\* indices = df.index.tolist(); np.random.shuffle(indices), with the global
\* generator standing at stream position pos.
Shuffle(d, pos) == ShuffleLoop([k \in 1..Len(d.rows) |-> k - 1], Len(d.rows) - 1, pos)

\* ----------------------------------------------- get_next_unlabeled_item
\* for idx in shuffled_indices: if unlabeled(df.loc[idx, 'Label']): return idx
\* df.loc raises KeyError for an idx the frame does not have.
RECURSIVE ScanUnlabeled(_, _, _)
ScanUnlabeled(d, order, k) ==
    IF k > Len(order) THEN None
    ELSE IF order[k] \notin Index(d) THEN KeyError
    ELSE IF IsUnlabeled(d.rows[order[k] + 1].Label) THEN order[k]
    ELSE ScanUnlabeled(d, order, k + 1)

\* Mutant: the label test is dropped, the first index of the order is returned.
get_next_ignoring_labels(d, order) ==
    IF ~d.ok THEN KeyError ELSE IF order = << >> THEN None ELSE order[1]

\* Mutant: the order is scanned from its end.
get_next_from_end(d, order) ==
    IF ~d.ok THEN KeyError
    ELSE ScanUnlabeled(d, [k \in 1..Len(order) |-> order[Len(order) + 1 - k]], 1)

get_next_unlabeled_item(d, order) ==
    IF ~d.ok THEN KeyError ELSE ScanUnlabeled(d, order, 1)

\* Mutant: the search starts behind the cursor's place in the order and wraps.
remaining_after_current(d, order, cur) ==
    LET at == CHOOSE k \in 1..Len(order) : order[k] = cur
        turned == SubSeq(order, at + 1, Len(order)) \o SubSeq(order, 1, at - 1)
        Keep(idx) == IsUnlabeled(d.rows[idx + 1].Label)
    IN  SelectSeq(turned, Keep)

\* Mutant: the test on the Label cell is dropped.
remaining_not_current(d, order, cur) ==
    LET Keep(idx) == idx # cur
    IN  SelectSeq(order, Keep)

\* Mutant: the test idx != current_idx is dropped.
remaining_with_current(d, order, cur) ==
    LET Keep(idx) == IsUnlabeled(d.rows[idx + 1].Label)
    IN  SelectSeq(order, Keep)

\* Skip's list comprehension (161-163): every idx of the order other than
\* current_idx is looked up, so a missing idx raises whatever comes first.
remaining_indices(d, order, cur) ==
    LET Keep(idx) == idx # cur /\ IsUnlabeled(d.rows[idx + 1].Label)
    IN  SelectSeq(order, Keep)
SkipRaises(d, order, cur) ==
    \E k \in 1..Len(order) : order[k] # cur /\ order[k] \notin Index(d)


\* ------------------------------------------------------------------- state
VARIABLES
    file,              \* c03-annotate.csv on disk
    rng,               \* numpy's global generator: outputs drawn since seed(42)
    faults,            \* I/O faults injected so far
    pc,                \* per session: where its script run stands
    click,             \* per session: the button that started the run
    keys,              \* per session: keys present in st.session_state
    shuffled_indices,  \* per session: st.session_state.shuffled_indices
    current_index,     \* per session: st.session_state.current_index
    df,                \* per session: the frame the run is working on
    current_idx,       \* per session: local current_idx (line 102)
    item_id,           \* per session: current_row['ID'] passed to save_label
    wsite,             \* per session: call site of the to_csv in progress
    rendered,          \* per session: buttons on the page after the last run
    ev,                \* the step just taken
    labeledSince,      \* ids whose save_label returned True since the last clear
    lastOp,            \* the last operation completed, "reset2": Reset after Reset
    snapshot           \* per session: the file as save_label / Reset read it

vars == << file, rng, faults, pc, click, keys, shuffled_indices, current_index,
           df, current_idx, item_id, wsite, rendered, ev, labeledSince, lastOp,
           snapshot >>

sessionVars == << keys, shuffled_indices, current_index >>
ctlVars == << pc, click, rendered, ev >>
localVars == << df, current_idx, item_id, wsite, snapshot >>
histVars == << labeledSince, lastOp >>

LabelCells == {"", "Yes", "No"}

\* The files the app may find at start-up: no file, an empty one, and tables
\* with any of the columns, up to NumRows rows and any labels; the Responses
\* cell of the first row may be a text that reads as a missing value.
PlainFiles ==
    UNION { UNION { { TableFile(c, [i \in 1..n |-> MkRow(i - 1, l[i])]) :
                      l \in [1..n -> IF "Label" \in c THEN LabelCells ELSE {""}] } :
                    n \in 0..NumRows } :
            c \in SUBSET AllColumns }
WithNaText(f) == TableFile(f.cols, [f.rows EXCEPT ![1].Responses = "N/A"])
InitialFiles ==
    {AbsentFile, EmptyFile} \cup PlainFiles \cup
    {WithNaText(f) : f \in {g \in PlainFiles : g.rows # << >> /\ "Responses" \in g.cols}}

\* The step just taken: the steps the properties speak of, by name and
\* session; every other step is "tau".
Observed == {"session_init", "label_failed", "saved", "label_next", "label_error",
             "skip_moved", "skip_none", "skip_error", "reset_done",
             "reset_failed", "no_item", "render", "load_failed"}
Event(op, s) == IF op \in Observed THEN [op |-> op, s |-> s]
                                   ELSE [op |-> "tau", s |-> 0]

Init ==
    /\ file \in InitialFiles
    /\ rng = None
    /\ faults = 0
    /\ pc = [s \in Sessions |-> "idle"]
    /\ click = [s \in Sessions |-> "none"]
    /\ keys = [s \in Sessions |-> {}]
    /\ shuffled_indices = [s \in Sessions |-> << >>]
    /\ current_index = [s \in Sessions |-> None]
    /\ df = [s \in Sessions |-> NoDf]
    /\ current_idx = [s \in Sessions |-> None]
    /\ item_id = [s \in Sessions |-> None]
    /\ wsite = [s \in Sessions |-> "none"]
    /\ rendered = [s \in Sessions |-> {}]
    /\ ev = Event("init", 0)
    /\ labeledSince = {}
    /\ lastOp = "none"
    /\ snapshot = [s \in Sessions |-> AbsentFile]

\* The buttons a run has put on the page when it stops inside the handler of b.
RenderedUpTo(b) ==
    CASE b = "yes" -> {"yes"}
      [] b = "no" -> {"yes", "no"}
      [] b = "skip" -> {"yes", "no", "skip"}
      [] OTHER -> Buttons

\* Control of session s after a step: position, pressed button, page, event.
Ctl(s, p, b, shown, op) ==
    /\ pc' = [pc EXCEPT ![s] = p]
    /\ click' = [click EXCEPT ![s] = b]
    /\ rendered' = [rendered EXCEPT ![s] = shown]
    /\ ev' = Event(op, s)

\* The locals of the run of session s after a step.
Loc(s, d, idx, id, site, snap) ==
    /\ df' = [df EXCEPT ![s] = d]
    /\ current_idx' = [current_idx EXCEPT ![s] = idx]
    /\ item_id' = [item_id EXCEPT ![s] = id]
    /\ wsite' = [wsite EXCEPT ![s] = site]
    /\ snapshot' = [snapshot EXCEPT ![s] = snap]

\* st.session_state of session s after a step.
Sess(s, ks, order, cur) ==
    /\ keys' = [keys EXCEPT ![s] = ks]
    /\ shuffled_indices' = [shuffled_indices EXCEPT ![s] = order]
    /\ current_index' = [current_index EXCEPT ![s] = cur]

\* st.session_state.current_index = v
SetCursor(s, v) == Sess(s, keys[s] \cup {"current_index"}, shuffled_indices[s], v)

\* The script goes on to position p.
Goto(s, p, op) == Ctl(s, p, click[s], rendered[s], op)

\* The run of session s ends (return, end of script or uncaught exception):
\* its frames are gone, the page shows the buttons it rendered.
EndRun(s, shown, op, idx) ==
    /\ Ctl(s, "idle", "none", shown, op)
    /\ Loc(s, NoDf, idx, None, "none", AbsentFile)

\* st.rerun(): the script starts over, no button pressed.  snap: what the
\* operation just completed had read from the file.
Rerun(s, op, idx, snap) ==
    /\ Ctl(s, "L73", "none", rendered[s], op)
    /\ Loc(s, NoDf, idx, None, "none", snap)

\* The script run of session s stands at position p.  The runs are followed up
\* to the first file with a tail line.
At(s, p) == pc[s] = p /\ ~HasJunk(file.rows)

\* ------------------------------------------------------ main body (79-185)
\* The page reaches the item and its buttons: not all labeled (96), a cursor
\* (104) and a row under it (105).
CanPresent(d, cur) ==
    /\ remaining_items(d) # 0
    /\ cur # None
    /\ cur \in Index(d)

\* "All items have been labeled" (96-100), "No items available" (185), or the
\* KeyError of line 105: the run ends with no button on the page.
NoItem(s, ks, order, cur, op, lo) ==
    /\ Sess(s, ks, order, cur)
    /\ EndRun(s, {}, op, None)
    /\ lastOp' = lo

\* No button pressed: the item and the four buttons are shown.
Render(s, ks, order, cur, op, lo) ==
    /\ Sess(s, ks, order, cur)
    /\ EndRun(s, Buttons, op, cur)
    /\ lastOp' = lo

LabelOf(b) == IF b = "yes" THEN "Yes" ELSE "No"

\* Yes / No pressed (129, 144): save_label(current_row['ID'], label) is next.
LabelBegin(s, d, b, ks, order, cur, lo) ==
    /\ Sess(s, ks, order, cur)
    /\ Ctl(s, "L46", b, rendered[s], "label_begin")
    /\ Loc(s, d, cur, d.rows[cur + 1].ID, "none", AbsentFile)
    /\ lastOp' = lo

\* Mutant: Skip moves the skipped index to the end of the order.
SkipReorders(s, d, ks, order, cur, lo) ==
    LET rem == remaining_indices(d, order, cur)
        NotCur(idx) == idx # cur
    IN  IF rem # << >>
        THEN /\ Sess(s, ks, Append(SelectSeq(order, NotCur), cur), rem[1])
             /\ Rerun(s, "skip_moved", cur, AbsentFile)
             /\ lastOp' = "skip"
        ELSE /\ Sess(s, ks, order, cur)
             /\ EndRun(s, Buttons, "skip_none", cur)
             /\ lastOp' = "skip"

\* Skip pressed (158-169).
Skip(s, d, ks, order, cur, lo) ==
    IF SkipRaises(d, order, cur)
    THEN /\ Sess(s, ks, order, cur)
         /\ EndRun(s, RenderedUpTo("skip"), "skip_error", cur)
         /\ lastOp' = lo
    ELSE LET rem == remaining_indices(d, order, cur)
         IN  IF rem # << >>
             THEN /\ Sess(s, ks, order, rem[1])
                  /\ Rerun(s, "skip_moved", cur, AbsentFile)
                  /\ lastOp' = "skip"
             ELSE /\ Sess(s, ks, order, cur)
                  /\ EndRun(s, Buttons, "skip_none", cur)
                  /\ lastOp' = "skip"

\* Clear All Labels pressed (173): the read of line 175 is next.
ResetBegin(s, d, ks, order, cur, lo) ==
    /\ Sess(s, ks, order, cur)
    /\ Ctl(s, "L175", "reset", rendered[s], "reset_begin")
    /\ Loc(s, d, cur, None, "none", AbsentFile)
    /\ lastOp' = lo

\* main from line 79 on, with the frame d that load_data returned, the button
\* b pressed, the session's order, its keys ks and cursor cur0, up to the next
\* access to the file.
Page(s, d, b, ks, order, cur0, lo) ==
    LET first == "current_index" \notin ks
        cur == IF first THEN get_next_unlabeled_item(d, order) ELSE cur0
        ks2 == ks \cup {"current_index"}
    IN  IF ~CanPresent(d, cur)
        THEN IF cur = KeyError
             THEN NoItem(s, ks, order, cur0, "no_item", lo)
             ELSE NoItem(s, ks2, order, cur, IF first THEN "session_init" ELSE "no_item", lo)
        ELSE CASE b = "none" ->
                    Render(s, ks2, order, cur, IF first THEN "session_init" ELSE "render", lo)
               [] b \in {"yes", "no"} -> LabelBegin(s, d, b, ks2, order, cur, lo)
               [] b = "skip" -> Skip(s, d, ks2, order, cur, lo)
               [] OTHER -> ResetBegin(s, d, ks2, order, cur, lo)

\* Lines 77-78 first: a session without an order seeds the generator next.
SetUp(s, d, b, shown, ks, order, cur0, lo) ==
    IF "shuffled_indices" \in ks
    THEN Page(s, d, b, ks, order, cur0, lo)
    ELSE /\ Sess(s, ks, order, cur0)
         /\ Ctl(s, "L56", b, shown, "loaded")
         /\ Loc(s, d, None, None, "none", AbsentFile)
         /\ lastOp' = lo

\* ------------------------------------------------------ load_data (15-41)
\* Mutant: lines 25-30 are missing, the columns are not checked.
LoadMainNoColumnCheck(s, b, shown, ks, order, cur0, lo) ==
    IF file.kind # "table"
    THEN /\ Sess(s, ks, order, cur0)
         /\ EndRun(s, {}, "load_failed", None)
         /\ lastOp' = lo
    ELSE IF "Label" \notin file.cols
    THEN /\ Sess(s, ks, order, cur0)
         /\ Ctl(s, "to_csv", b, shown, "upgrade")
         /\ Loc(s, ClearLabels(ReadCsv(file)), None, None, "L73", file)
         /\ lastOp' = lo
    ELSE SetUp(s, ReadCsv(file), b, shown, ks, order, cur0, lo)

\* load_data as called at line 73 by a run that button b started:
\* os.path.exists, pd.read_csv, the column check and the Label column test;
\* on None main shows the setup text (187-199).
LoadMain(s, b, shown, ks, order, cur0, lo) ==
    IF file.kind # "table" \/ ~(required_columns \subseteq file.cols)
    THEN /\ Sess(s, ks, order, cur0)
         /\ EndRun(s, {}, "load_failed", None)
         /\ lastOp' = lo
    ELSE IF "Label" \notin file.cols
    THEN /\ Sess(s, ks, order, cur0)
         /\ Ctl(s, "to_csv", b, shown, "upgrade")
         /\ Loc(s, ClearLabels(ReadCsv(file)), None, None, "L73", file)
         /\ lastOp' = lo
    ELSE SetUp(s, ReadCsv(file), b, shown, ks, order, cur0, lo)

\* Mutant: lines 138 / 153 are missing, the cursor stays where it is.
LabelNextStays(s, d) ==
    /\ SetCursor(s, current_index[s])
    /\ Rerun(s, "label_next", current_idx[s], AbsentFile)
    /\ lastOp' = "label"

\* Lines 138 / 153 and the rerun: the cursor moves to the next unlabeled item
\* of the reloaded frame d.  get_next_unlabeled_item raises on df = None and
\* on an index the frame lacks; the exception ends the run inside the handler.
LabelNext(s, d) ==
    LET nxt == get_next_unlabeled_item(d, shuffled_indices[s])
    IN  IF nxt = KeyError
        THEN /\ EndRun(s, RenderedUpTo(click[s]), "label_error", current_idx[s])
             /\ UNCHANGED << sessionVars, lastOp >>
        ELSE /\ SetCursor(s, nxt)
             /\ Rerun(s, "label_next", current_idx[s], AbsentFile)
             /\ lastOp' = "label"

\* load_data as called at line 135 / 150, then line 138 / 153.
LoadLabel(s) ==
    IF file.kind # "table" \/ ~(required_columns \subseteq file.cols)
    THEN LabelNext(s, NoDf)
    ELSE IF "Label" \notin file.cols
    THEN /\ Goto(s, "to_csv", "upgrade")
         /\ Loc(s, ClearLabels(ReadCsv(file)), current_idx[s], item_id[s], "L135", file)
         /\ UNCHANGED << sessionVars, lastOp >>
    ELSE LabelNext(s, ReadCsv(file))

\* ------------------------------------------------ a run starts (main, 68-73)
\* A browser opens the page: a new session with an empty session_state runs
\* the script, which begins by loading the file.
StartSession(s) ==
    /\ At(s, "idle")
    /\ LoadMain(s, "none", {}, {}, << >>, None, "start")
    /\ UNCHANGED << file, rng, faults, labeledSince >>

\* The annotator presses a button of the page: the script reruns with it set
\* and begins by loading the file.
ClickOn(s, B) ==
    /\ At(s, "idle")
    /\ \E b \in rendered[s] \cap B :
         LoadMain(s, b, rendered[s], keys[s], shuffled_indices[s], current_index[s],
                  lastOp)
    /\ UNCHANGED << file, rng, faults, labeledSince >>
Click(s) == ClickOn(s, Buttons)

\* The run that st.rerun() started loads the file (73).
load_data(s) ==
    /\ At(s, "L73")
    /\ LoadMain(s, click[s], rendered[s], keys[s], shuffled_indices[s],
                current_index[s], lastOp)
    /\ UNCHANGED << file, rng, faults, labeledSince >>

\* The label handler reloads the file (135 / 150) and moves the cursor.
load_data_label(s) ==
    /\ At(s, "L135")
    /\ LoadLabel(s)
    /\ UNCHANGED << file, rng, faults, labeledSince >>

\* --------------------------------------------- get_shuffled_order (54-59)
\* np.random.seed(shuffle_seed)
np_random_seed(s) ==
    /\ At(s, "L56")
    /\ rng' = 0
    /\ Goto(s, "L58", "seed")
    /\ UNCHANGED << file, faults, sessionVars, localVars, histVars >>

\* indices = df.index.tolist(); np.random.shuffle(indices); the order is
\* stored (78) and the script goes on with lines 79-185.
get_shuffled_order(s) ==
    /\ At(s, "L58")
    /\ LET r == Shuffle(df[s], rng)
       IN  /\ rng' = r.pos
           /\ Page(s, df[s], click[s], keys[s] \cup {"shuffled_indices"}, r.indices,
                   current_index[s], lastOp)
    /\ UNCHANGED << file, faults, labeledSince >>

\* ------------------------------------------------- save_label (43-52)
\* Lines 46-47: reload the file and set the label of the rows whose ID
\* matches.  An exception makes save_label return False: no cursor change,
\* no rerun, the rest of the page is rendered.
save_label_read(s) ==
    /\ At(s, "L46")
    /\ IF file.kind # "table" \/ "ID" \notin file.cols
       THEN EndRun(s, Buttons, "label_failed", current_idx[s])
       ELSE /\ Goto(s, "to_csv", "save_read")
            /\ Loc(s, SetLabelLoc(ReadCsv(file), item_id[s], LabelOf(click[s])),
                   current_idx[s], item_id[s], "L48", file)
    /\ UNCHANGED << file, rng, faults, sessionVars, histVars >>

\* ------------------------------------------- Clear All Labels (171-182)
\* Lines 175-176: reload the file, blank the Label column.
reset_read(s) ==
    /\ At(s, "L175")
    /\ IF file.kind # "table"
       THEN EndRun(s, Buttons, "reset_failed", current_idx[s])
       ELSE /\ Goto(s, "to_csv", "reset_read")
            /\ Loc(s, ClearLabels(ReadCsv(file)), current_idx[s], None, "L177", file)
    /\ UNCHANGED << file, rng, faults, sessionVars, histVars >>

\* Mutant: shuffled_indices[-1]
LastOfOrder(order) == order[Len(order)]

\* shuffled_indices[0]
FirstOfOrder(order) == order[1]

\* Line 178 and the rerun; an empty order raises IndexError into the except.
ResetCursor(s) ==
    IF shuffled_indices[s] = << >>
    THEN /\ EndRun(s, Buttons, "reset_failed", current_idx[s])
         /\ UNCHANGED << sessionVars, lastOp >>
    ELSE /\ SetCursor(s, FirstOfOrder(shuffled_indices[s]))
         /\ Rerun(s, "reset_done", current_idx[s], snapshot[s])
         /\ lastOp' = IF lastOp \in {"reset", "reset2"} THEN "reset2" ELSE "reset"

\* ------------------------------------------------- df.to_csv (36, 48, 177)
\* to_csv opens the file for writing, which truncates it.  The rows are
\* buffered and reach the file in one write when it is closed.
to_csv_open(s) ==
    /\ At(s, "to_csv")
    /\ file' = EmptyFile
    /\ Goto(s, "writing", "open")
    /\ UNCHANGED << rng, faults, sessionVars, localVars, histVars >>

\* The rows are written and the file is closed; the caller goes on: save_label
\* returns True (49), Reset sets the cursor (178), load_data returns df (38).
to_csv_write(s) ==
    /\ At(s, "writing")
    /\ Overwritable(ToCsv(df[s]), file)
    /\ file' = Overwrite(ToCsv(df[s]), file)
    /\ CASE wsite[s] = "L48" ->
              /\ labeledSince' = labeledSince \cup {item_id[s]}
              /\ Goto(s, "L135", "saved")
              /\ UNCHANGED << sessionVars, localVars, lastOp >>
         [] wsite[s] = "L177" ->
              /\ labeledSince' = {}
              /\ ResetCursor(s)
         [] wsite[s] = "L135" ->
              /\ UNCHANGED labeledSince
              /\ LabelNext(s, df[s])
         [] OTHER ->
              /\ UNCHANGED labeledSince
              /\ SetUp(s, df[s], click[s], rendered[s], keys[s], shuffled_indices[s],
                       current_index[s], lastOp)
    /\ UNCHANGED << rng, faults >>

\* to_csv raised: load_data returns None (39-41), save_label returns False
\* (50-52), Reset shows the error (181-182).
Raised(s) ==
    CASE wsite[s] = "L48" ->
           /\ EndRun(s, Buttons, "label_failed", current_idx[s])
           /\ UNCHANGED << sessionVars, lastOp >>
      [] wsite[s] = "L177" ->
           /\ EndRun(s, Buttons, "reset_failed", current_idx[s])
           /\ UNCHANGED << sessionVars, lastOp >>
      [] wsite[s] = "L135" -> LabelNext(s, NoDf)
      [] OTHER ->
           /\ EndRun(s, {}, "load_failed", None)
           /\ UNCHANGED << sessionVars, lastOp >>

\* The open fails (permissions, a locked file): the file is untouched.
to_csv_open_fails(s) ==
    /\ At(s, "to_csv")
    /\ faults < MaxFaults
    /\ faults' = faults + 1
    /\ Raised(s)
    /\ UNCHANGED << file, rng, labeledSince >>

\* The write fails part-way (disk full): what was flushed stays in the file.
to_csv_write_fails(s) ==
    /\ At(s, "writing")
    /\ faults < MaxFaults
    /\ faults' = faults + 1
    /\ file' \in PartialFiles(df[s])
    /\ Raised(s)
    /\ UNCHANGED << rng, labeledSince >>

\* Another program cuts rows off the end of the file.
ExternalTruncate ==
    /\ file.kind = "table"
    /\ faults < MaxFaults
    /\ faults' = faults + 1
    /\ \E k \in 0..(Len(file.rows) - 1) :
         file' = TableFile(file.cols, SubSeq(file.rows, 1, k))
    /\ ev' = Event("external", 0)
    /\ UNCHANGED << rng, pc, click, rendered, sessionVars, localVars, histVars >>

\* ---------------------------------------------------------- specifications
Run(s) ==
    \/ Click(s)
    \/ load_data(s)
    \/ load_data_label(s)
    \/ np_random_seed(s)
    \/ get_shuffled_order(s)
    \/ save_label_read(s)
    \/ reset_read(s)
    \/ to_csv_open(s)
    \/ to_csv_write(s)

Step(s) ==
    \/ StartSession(s)
    \/ Run(s)

Fault(s) ==
    \/ to_csv_open_fails(s)
    \/ to_csv_write_fails(s)

\* One annotator, one session at a time, no I/O fault.
Solo == {1}
Next == \E s \in Solo : Step(s)
Spec == Init /\ [][Next]_vars

\* One session at a time, writes may fail.
NextFault == \E s \in Solo : Step(s) \/ Fault(s)
SpecFault == Init /\ [][NextFault]_vars

\* One session at a time, and another program that truncates the file.
NextExt == (\E s \in Solo : Step(s)) \/ ExternalTruncate
SpecExt == Init /\ [][NextExt]_vars

\* Two sessions of one server on a well-formed file, each opened from an empty
\* page, their runs interleaved.
InitConc ==
    /\ Init
    /\ file.kind = "table"
    /\ file.cols = AllColumns
    /\ Len(file.rows) = ConcRows
    /\ \A i \in 1..Len(file.rows) : file.rows[i].Responses = "text"
OpenSession(s) ==
    /\ keys[s] = {}
    /\ rendered[s] = {}
    /\ StartSession(s)
NextConc == \E s \in Sessions : OpenSession(s) \/ Run(s)
SpecConc == InitConc /\ [][NextConc]_vars


\* One session of an annotator who keeps labeling: the page is opened once,
\* Yes, No and Skip are pressed, Clear All Labels is not.  A script run
\* started goes on to its end; a label button that is on the page again and
\* again is pressed in the end, so that Skip is pressed finitely often.
ClickLabel(s) == ClickOn(s, {"yes", "no"})
ClickSkip(s) == ClickOn(s, {"skip"})
Script(s) ==
    \/ load_data(s)
    \/ load_data_label(s)
    \/ np_random_seed(s)
    \/ get_shuffled_order(s)
    \/ save_label_read(s)
    \/ to_csv_open(s)
    \/ to_csv_write(s)
NextLabeling ==
    \E s \in Solo : OpenSession(s) \/ ClickLabel(s) \/ ClickSkip(s) \/ Script(s)
SpecLabeling ==
    /\ Init
    /\ [][NextLabeling]_vars
    /\ \A s \in Solo : WF_vars(Script(s)) /\ SF_vars(ClickLabel(s))

\* ------------------------------------------------------------- properties
AllUnset(f) == f.kind = "table" /\ \A i \in 1..Len(f.rows) : f.rows[i].Label = ""
AllLabeled(f) == f.kind = "table" /\ \A i \in 1..Len(f.rows) : f.rows[i].Label # ""
HasRow(f, idx) == f.kind = "table" /\ idx \in 0..(Len(f.rows) - 1)

\* The first index of the order whose row of f has an empty Label cell.
FirstUnset(f, order) ==
    LET U == {k \in 1..Len(order) : f.rows[order[k] + 1].Label = ""}
    IN  IF U = {} THEN None ELSE order[CHOOSE k \in U : \A j \in U : k <= j]

\* C1: in one session at a time, every cursor value set by a label, a skip or
\* a session start is a row whose id has not been labeled successfully since
\* the last Clear All Labels.
C1_NoRePresentation ==
    ev.op \in {"session_init", "label_next", "skip_moved"} =>
        \/ current_index[ev.s] = None
        \/ file.rows[current_index[ev.s] + 1].ID \notin labeledSince

\* C1 witness: Skip moves the cursor after some label has been saved.
C1_Witness == ev.op = "skip_moved" /\ labeledSince # {}

\* C2 (as claimed): whenever every row is labeled and the cursor is
\* none-remaining after labeling, the page offers Clear All Labels.
C2_ResetFromExhausted ==
    \A s \in Sessions :
        ( /\ pc[s] = "idle"
          /\ "current_index" \in keys[s]
          /\ current_index[s] = None
          /\ AllLabeled(file)
          /\ labeledSince # {} )
        => "reset" \in rendered[s]

\* The first index of the order other than cur whose row of f has an empty
\* Label cell.
FirstUnsetOther(f, order, cur) ==
    LET U == {k \in 1..Len(order) : order[k] # cur /\ f.rows[order[k] + 1].Label = ""}
    IN  IF U = {} THEN None ELSE order[CHOOSE k \in U : \A j \in U : k <= j]

\* C3: when a row other than the one under the cursor is unlabeled, Skip
\* moves the cursor to the first unlabeled row of the order that is not the
\* one before, and the skipped row stays unlabeled and in the order.
C3_SkipAdvances ==
    ev.op \in {"skip_moved", "skip_none", "skip_error"} =>
        LET s == ev.s
            old == current_idx[s]
            new == current_index[s]
        IN  (\E i \in 0..(Len(file.rows) - 1) : i # old /\ file.rows[i + 1].Label = "")
            => /\ ev.op = "skip_moved"
               /\ new # old
               /\ new = FirstUnsetOther(file, shuffled_indices[s], old)
               /\ HasRow(file, new)
               /\ file.rows[new + 1].Label = ""
               /\ file.rows[old + 1].Label = ""
               /\ \E k \in 1..Len(shuffled_indices[s]) : shuffled_indices[s][k] = old

\* C3 witness: a Skip that moved the cursor.
C3_Witness == ev.op = "skip_moved" /\ current_index[ev.s] # current_idx[ev.s]

\* C4 (as claimed): save_label reports success only if a row of the frame it
\* reloaded has the id it was given.
C4_NotFoundReported ==
    ev.op = "saved" =>
        \E i \in 1..Len(df[ev.s].rows) : df[ev.s].rows[i].ID = item_id[ev.s]

\* C5 (as claimed): when a rewrite ends, in success or in failure, the file is
\* the complete collection read before the write or the complete new one.
C5_AllOrNothing ==
    [][\A s \in Sessions :
          (pc[s] = "writing" /\ pc'[s] # "writing")
          => (file' = snapshot[s] \/ file' = ToCsv(df[s]))]_vars

\* C6 (as claimed): after a label action failed in the store, the cursor is
\* where it was and the row's label in the file is still empty.
C6_FailedLabelNotApplied ==
    ev.op = "label_failed" =>
        LET s == ev.s
            idx == current_idx[s]
        IN  /\ current_index[s] = idx
            /\ HasRow(file, idx) => file.rows[idx + 1].Label = ""

\* C7: the cursor a new session starts with is the first index of its order
\* whose row is unlabeled in the file, or None when every row is labeled.
C7_Resume ==
    ev.op = "session_init" =>
        current_index[ev.s] = FirstUnset(file, shuffled_indices[ev.s])

\* C7 witness: a session starts after labels were saved and resumes past the
\* first row of its order.
C7_Witness ==
    /\ ev.op = "session_init"
    /\ labeledSince # {}
    /\ current_index[ev.s] # None
    /\ current_index[ev.s] # shuffled_indices[ev.s][1]

\* C8 (as claimed): two sessions that derived their order from the same number
\* of rows hold the same order.
C8_SameOrder ==
    \A s, t \in Sessions :
        ( /\ "shuffled_indices" \in keys[s]
          /\ "shuffled_indices" \in keys[t]
          /\ Len(shuffled_indices[s]) = Len(shuffled_indices[t]) )
        => shuffled_indices[s] = shuffled_indices[t]

\* C9: after Clear All Labels every label is empty, remaining == total and the
\* cursor is the first index of the order; and a Clear All Labels that follows
\* a Clear All Labels leaves the file and the cursor as they were.
C9_ResetIdempotent ==
    ev.op = "reset_done" =>
        LET s == ev.s
        IN  /\ AllUnset(file)
            /\ remaining_items(ReadCsv(file)) = total_items(ReadCsv(file))
            /\ current_index[s] = shuffled_indices[s][1]
            /\ lastOp = "reset2" =>
                  /\ file = snapshot[s]
                  /\ current_index[s] = current_idx[s]

\* C9 witness: a Clear All Labels right after a Clear All Labels.
C9_Witness == ev.op = "reset_done" /\ lastOp = "reset2" /\ Len(file.rows) > 1

\* The rows of snapshot f with the label of the rows whose ID is id set to l.
Relabeled(f, id, l) ==
    TableFile(f.cols \cup {"Label"},
              [i \in 1..Len(f.rows) |->
                 IF f.rows[i].ID = id THEN [f.rows[i] EXCEPT !.Label = l]
                                      ELSE f.rows[i]])

\* C10 (as claimed): when a session completes a rewrite, the file is exactly
\* what that session read before, with its own change: its label on its row,
\* or every label cleared; whatever another session wrote in between is gone.
C10_LastWriterWins ==
    /\ ev.op = "saved" =>
          file = Relabeled(snapshot[ev.s], item_id[ev.s], LabelOf(click[ev.s]))
    /\ ev.op = "reset_done" =>
          /\ Len(file.rows) = Len(snapshot[ev.s].rows)
          /\ AllUnset(file)

\* C11: whenever every row of the file has a label, get_next_unlabeled_item on
\* the reloaded frame returns None for the order of every session, and
\* remaining_items is 0.
C11_Exhaustion ==
    \A s \in Sessions :
        ("shuffled_indices" \in keys[s] /\ AllLabeled(file)) =>
            /\ get_next_unlabeled_item(ReadCsv(file), shuffled_indices[s]) = None
            /\ remaining_items(ReadCsv(file)) = 0

\* C11 witness: the session has labeled the last row of a file of several rows.
C11_Witness ==
    /\ ev.op = "label_next"
    /\ AllLabeled(file)
    /\ Len(file.rows) > 1
    /\ current_index[ev.s] = None

\* A file that load_data accepts and that has no Label column.
NeedsUpgrade(f) ==
    f.kind = "table" /\ required_columns \subseteq f.cols /\ "Label" \notin f.cols
HasLabelColumn(f) == f.kind = "table" /\ "Label" \in f.cols
UpgradeSites == {"L73", "L135"}

\* Content g has the rows of content f, cell by cell, but for the labels.
SameCells(g, f) ==
    /\ Len(g.rows) = Len(f.rows)
    /\ \A i \in 1..Len(f.rows) :
         /\ g.rows[i].ID = f.rows[i].ID
         /\ g.rows[i].Prompts = f.rows[i].Prompts
         /\ g.rows[i].Responses = f.rows[i].Responses

\* C12 (as claimed): a load of a file with the required columns and no Label
\* column yields its rows with every label unset and goes on to rewrite the
\* file; the rewrite leaves the same rows, ids, prompts and responses, with an
\* empty Label column; an upgrade write starts only from a file without the
\* column, and a file that has the column keeps it.
C12_SchemaUpgrade ==
    [][\A s \in Sessions :
         /\ (NeedsUpgrade(file) /\ pc[s] \in {"idle", "L73", "L135"} /\ pc'[s] # pc[s])
            => /\ pc'[s] = "to_csv"
               /\ wsite'[s] \in UpgradeSites
               /\ df'[s].ok
               /\ "Label" \in df'[s].cols
               /\ Len(df'[s].rows) = Len(file.rows)
               /\ \A i \in 1..Len(file.rows) :
                     /\ df'[s].rows[i].ID = file.rows[i].ID
                     /\ df'[s].rows[i].Label \in {"", "NaN"}
               /\ file' = file
         /\ (pc[s] = "writing" /\ wsite[s] \in UpgradeSites /\ pc'[s] # "writing")
            => /\ HasLabelColumn(file')
               /\ file'.cols = snapshot[s].cols \cup {"Label"}
               /\ AllUnset(file')
               /\ SameCells(file', snapshot[s])
         /\ (wsite'[s] \in UpgradeSites /\ wsite[s] \notin UpgradeSites)
            => NeedsUpgrade(file)
         /\ (HasLabelColumn(file) /\ file'.kind = "table") => HasLabelColumn(file')]_vars

\* load_data returns None for this file: absent, not parsable, or without one
\* of the required columns.
LoadFails(f) == f.kind # "table" \/ ~(required_columns \subseteq f.cols)

\* C13: while the file is one that load_data fails on, a run of a session that
\* starts with the load of line 73 ends with the setup text: no button on the
\* page, no key added to the session state, order and cursor as they were,
\* the file untouched.
C13_LoadFailureBlocks ==
    [][\A s \in Sessions :
         (LoadFails(file) /\ pc[s] \in {"idle", "L73"}) =>
            \/ /\ ev'.s # s
               /\ pc'[s] = pc[s]
               /\ rendered'[s] = rendered[s]
               /\ keys'[s] = keys[s]
               /\ shuffled_indices'[s] = shuffled_indices[s]
               /\ current_index'[s] = current_index[s]
            \/ /\ ev' = [op |-> "load_failed", s |-> s]
               /\ pc'[s] = "idle"
               /\ rendered'[s] = {}
               /\ file' = file
               /\ keys'[s] \subseteq keys[s]
               /\ keys'[s] = {} \/ /\ shuffled_indices'[s] = shuffled_indices[s]
                                   /\ current_index'[s] = current_index[s]]_vars

\* C13 witness: a run ended with the setup text on a file that has rows but
\* lacks a required column.
C13_Witness ==
    /\ ev.op = "load_failed"
    /\ file.kind = "table"
    /\ ~(required_columns \subseteq file.cols)
    /\ Len(file.rows) > 0
    /\ rendered[ev.s] = {}

\* The number of rows of r whose Label cell is not empty.
RECURSIVE CountSet(_)
CountSet(r) ==
    IF r = << >> THEN 0
    ELSE (IF Head(r).Label = "" THEN 0 ELSE 1) + CountSet(Tail(r))

\* labeled, total and remaining of lines 83-85 on frame d count the rows of
\* the file content f that d stands for.
ProgressCounts(d, f) ==
    /\ labeled_items(d) = CountSet(f.rows)
    /\ total_items(d) = Len(f.rows)
    /\ labeled_items(d) + remaining_items(d) = total_items(d)
    /\ 0 <= labeled_items(d)
    /\ labeled_items(d) <= total_items(d)

\* C14: in every state the progress figures computed from the file as read,
\* and from every frame a run holds, are the count of rows with a label, the
\* row count, and their difference.
C14_ProgressAccounting ==
    /\ file.kind = "table" => ProgressCounts(ReadCsv(file), file)
    /\ \A s \in Sessions : df[s].ok => ProgressCounts(df[s], ToCsv(df[s]))

\* C14 witness: a run holds a frame with labeled and unlabeled rows, one of
\* them just cleared or labeled in memory.
C14_Witness ==
    \E s \in Sessions :
        /\ df[s].ok
        /\ labeled_items(df[s]) > 0
        /\ remaining_items(df[s]) > 0
        /\ pc[s] = "to_csv"

SkipEvents == {"skip_moved", "skip_none", "skip_error"}

\* C15: a run in which Skip was pressed, whether it moves the cursor or finds
\* no other unlabeled row, leaves the file, the order of every session, the
\* keys of the session state and the generator as they were.
C15_SkipTransient ==
    [][ev'.op \in SkipEvents =>
          /\ file' = file
          /\ shuffled_indices' = shuffled_indices
          /\ keys' = keys
          /\ rng' = rng
          /\ \A t \in Sessions : t # ev'.s => current_index'[t] = current_index[t]]_vars

\* C15 witness: Skip was pressed on the only unlabeled row of a file of
\* several rows.
C15_Witness ==
    /\ ev.op = "skip_none"
    /\ Len(file.rows) > 1
    /\ current_index[ev.s] = current_idx[ev.s]

\* C16: between the runs of a session that has a cursor, the cursor is None
\* exactly when every row of the file is labeled, and otherwise it is the
\* index of a row whose Label cell is empty; a Skip that finds no other
\* unlabeled row leaves the cursor on the row it was on.
C16_CursorInvariant ==
    /\ \A s \in Sessions :
         (pc[s] \in {"idle", "L73"} /\ "current_index" \in keys[s]) =>
            /\ file.kind = "table"
            /\ current_index[s] = None <=> AllLabeled(file)
            /\ current_index[s] # None =>
                  /\ HasRow(file, current_index[s])
                  /\ file.rows[current_index[s] + 1].Label = ""
    /\ ev.op = "skip_none" =>
          /\ current_index[ev.s] # None
          /\ current_index[ev.s] = current_idx[ev.s]

\* C16 witness: after a saved label and then a Skip the session is on an
\* unlabeled row of a file that has a labeled row.
C16_Witness ==
    \E s \in Sessions :
        /\ pc[s] = "idle"
        /\ lastOp = "skip"
        /\ current_index[s] # None
        /\ labeledSince # {}
        /\ ~AllUnset(file)

\* The second index of the order whose row of f has an empty Label cell.
SecondUnset(f, order) == FirstUnsetOther(f, order, FirstUnset(f, order))

\* C17: Skip puts the cursor on the earliest index of the order, counted from
\* its start, that is unlabeled and not the cursor; so between runs the cursor
\* of a session is the first or the second unlabeled index of its order, and
\* a Skip exchanges those two.
C17_SkipReach ==
    /\ \A s \in Sessions :
         ( /\ pc[s] \in {"idle", "L73"}
           /\ "current_index" \in keys[s]
           /\ current_index[s] # None )
         => current_index[s] \in {FirstUnset(file, shuffled_indices[s]),
                                  SecondUnset(file, shuffled_indices[s])}
    /\ ev.op = "skip_moved" =>
          LET s == ev.s
              old == current_idx[s]
              new == current_index[s]
          IN  /\ new = FirstUnsetOther(file, shuffled_indices[s], old)
              /\ {old, new} = {FirstUnset(file, shuffled_indices[s]),
                               SecondUnset(file, shuffled_indices[s])}

\* C17 witness: with three unlabeled rows a Skip brings the cursor from the
\* second unlabeled index back to the first.
C17_Witness ==
    /\ ev.op = "skip_moved"
    /\ Len(file.rows) - CountSet(file.rows) >= 3
    /\ current_index[ev.s] = FirstUnset(file, shuffled_indices[ev.s])
    /\ current_idx[ev.s] = SecondUnset(file, shuffled_indices[ev.s])

\* C18: when save_label has written, the row that was under the cursor has
\* the label of the button pressed, the label of every other row is as it was
\* in the file before, and exactly one more row is labeled.
C18_LabelFrame ==
    ev.op = "saved" =>
        LET s == ev.s
            before == snapshot[s]
            idx == current_idx[s]
        IN  /\ file.kind = "table"
            /\ file.cols = before.cols
            /\ Len(file.rows) = Len(before.rows)
            /\ HasRow(file, idx)
            /\ file.rows[idx + 1].ID = item_id[s]
            /\ file.rows[idx + 1].Label = LabelOf(click[s])
            /\ \A i \in 1..Len(file.rows) :
                  /\ i # idx + 1 => file.rows[i].Label = before.rows[i].Label
                  /\ file.rows[i].ID = before.rows[i].ID
            /\ CountSet(file.rows) = CountSet(before.rows) + 1
            /\ remaining_items(ReadCsv(file)) = remaining_items(ReadCsv(before)) - 1

\* C18 witness: a label was saved into a file of several rows, one of which
\* already had a label and one of which has none.
C18_Witness ==
    /\ ev.op = "saved"
    /\ CountSet(snapshot[ev.s].rows) > 0
    /\ CountSet(file.rows) < Len(file.rows)

\* order holds each of the indices 0 .. n-1 exactly once.
IsPermutation(order, n) ==
    /\ Len(order) = n
    /\ \A i \in 0..(n - 1) : \E k \in 1..n : order[k] = i

\* The order of a session between its runs is a permutation of the rows of
\* the file, and no step of a session changes the order it has.
OrderFixed(s) ==
    /\ ("shuffled_indices" \in keys'[s] /\ pc'[s] \in {"idle", "L73"} /\ file'.kind = "table")
       => IsPermutation(shuffled_indices'[s], Len(file'.rows))
    /\ ("shuffled_indices" \in keys[s] /\ "shuffled_indices" \in keys'[s])
       => shuffled_indices'[s] = shuffled_indices[s]

\* A completed write of save_label or of Clear All Labels leaves the rows of
\* the file it read, with their ids, prompts and responses.
RowsFixed(s) ==
    (pc[s] = "writing" /\ wsite[s] \in {"L48", "L177"} /\ pc'[s] # "writing")
    => SameCells(file', snapshot[s])

\* C19 (as claimed): throughout a session its order is a permutation of all
\* rows and does not change, and no Label, Skip or Clear All Labels changes
\* the set of rows or the id, prompt or response of any row.
C19_OrderAndRowsFixed ==
    [][\A s \in Sessions : OrderFixed(s) /\ RowsFixed(s)]_vars

\* The rows of f without a label.
Unset(f) == Len(f.rows) - CountSet(f.rows)

\* The content of the file, a rewrite under way counted as not yet done.
Content == IF file.kind = "table" THEN file ELSE snapshot[1]

\* The session shows "All items have been labeled": no cursor, no row left.
Exhausted(s) ==
    /\ pc[s] = "idle"
    /\ "current_index" \in keys[s]
    /\ current_index[s] = None
    /\ rendered[s] = {}
    /\ AllLabeled(file)

\* The session shows row i with its buttons.
Presented(s, i) ==
    /\ pc[s] = "idle"
    /\ rendered[s] = Buttons
    /\ current_index[s] = i

\* Every save_label that returns True labels one row more, and nothing else
\* changes the number of unlabeled rows: unlabeled rows plus labels saved is
\* the number k of rows unlabeled at the start.
CountsLabels ==
    /\ ev'.op = "saved" =>
          Cardinality(labeledSince') = Cardinality(labeledSince) + 1
    /\ ev'.op # "saved" => labeledSince' = labeledSince
    /\ Unset(Content') + Cardinality(labeledSince') =
          Unset(Content) + Cardinality(labeledSince)

\* C20: a session whose annotator keeps labeling reaches "All items have been
\* labeled", which it shows only when no row is unlabeled, that is after as
\* many saved labels as rows were unlabeled at the start; and every row that
\* is unlabeled when a page has been drawn is on a page then or later.
C20_Termination ==
    /\ \A s \in Solo : ("shuffled_indices" \in keys[s]) ~> Exhausted(s)
    /\ \A s \in Solo : \A i \in 0..(NumRows - 1) :
          ( /\ "shuffled_indices" \in keys[s]
            /\ pc[s] = "idle"
            /\ HasRow(file, i)
            /\ file.rows[i + 1].Label = "" ) ~> Presented(s, i)
    /\ [][CountsLabels]_vars
    /\ [](\A s \in Solo :
            (pc[s] = "idle" /\ "current_index" \in keys[s] /\ current_index[s] = None)
            => Unset(Content) = 0)

\* C20 witness: the session is exhausted after a label saved for each of the
\* NumRows rows, all of them unlabeled at the start.
C20_Witness ==
    /\ Exhausted(1)
    /\ Len(file.rows) = NumRows
    /\ Cardinality(labeledSince) = NumRows

====
